---- MODULE Spec2Model ----
(***************************************************************************)
(* Career-coach backend: the in-memory record store (MemStorage), the      *)
(* helper that calls the Python collaborator (callPythonService) and the   *)
(* Express route handlers of server/routes.ts.                             *)
(*                                                                         *)
(* JavaScript values that are dynamically typed in the source (JSON that   *)
(* comes from the collaborator or from a request body, nullable columns)   *)
(* are tagged records, so that `||`, `?.`, `for..of` and property reads    *)
(* behave as they do in JavaScript.                                        *)
(***************************************************************************)
EXTENDS Integers, Sequences, FiniteSets, TLC

(* ------------------------------------------------------------------ *)
(* Bounds of the model                                                 *)
(* ------------------------------------------------------------------ *)
\* Requests that may write to the store (uploads, job and career-path
\* listings, activity posts) started in one run.
MaxRequests == 2
\* Requests that may wait for the collaborator (or the disk) at the same time.
MaxInFlight == 1
\* Milliseconds the clock may advance.
MaxClock == 1

(* ------------------------------------------------------------------ *)
(* JavaScript values                                                   *)
(* ------------------------------------------------------------------ *)
Undefined == [t |-> "undefined"]
Null == [t |-> "null"]
Num(n) == [t |-> "number", n |-> n]
Str(s) == [t |-> "string", s |-> s]
Bool(b) == [t |-> "boolean", b |-> b]
Arr(a) == [t |-> "array", a |-> a]
Obj(o) == [t |-> "object", o |-> o]

\* ToBoolean: undefined, null, 0, "" and false are falsy.
Truthy(v) ==
    CASE v.t = "undefined" -> FALSE
      [] v.t = "null" -> FALSE
      [] v.t = "number" -> v.n # 0
      [] v.t = "string" -> v.s # ""
      [] v.t = "boolean" -> v.b
      [] OTHER -> TRUE

\* a || b
OrElse(a, b) == IF Truthy(a) THEN a ELSE b

\* Reading a property of null or undefined throws a TypeError.
Nullish(v) == v.t \in {"undefined", "null"}

\* v.f for a v that is not nullish: undefined when v has no such property.
Get(v, f) == IF v.t = "object" /\ f \in DOMAIN v.o THEN v.o[f] ELSE Undefined

\* v?.f
OptGet(v, f) == IF Nullish(v) THEN Undefined ELSE Get(v, f)

\* What for..of and .slice accept among the values of the model: arrays.
\* (The replies of the model carry no strings where a list is expected.)
IsArray(v) == v.t = "array"

(* ------------------------------------------------------------------ *)
(* Map<string, T>: entries in insertion order                          *)
(* ------------------------------------------------------------------ *)
EmptyMap == << >>

MapKeys(m) == {m[i].k : i \in 1..Len(m)}

\* Array.from(map.values())
MapValues(m) == [i \in 1..Len(m) |-> m[i].v]

\* map.get(k): undefined for an unknown key.
MapGet(m, k) ==
    IF k \in MapKeys(m)
    THEN (m[CHOOSE i \in 1..Len(m) : m[i].k = k]).v
    ELSE Undefined

\* map.set(k, v): a known key keeps its place, a new key goes last.
MapSet(m, k, v) ==
    IF k \in MapKeys(m)
    THEN [i \in 1..Len(m) |-> IF m[i].k = k THEN [k |-> k, v |-> v] ELSE m[i]]
    ELSE Append(m, [k |-> k, v |-> v])

\* Array.prototype.sort((a, b) => key(b) - key(a)) on entries [key, v]:
\* descending by key, and stable (ES2019): entries with equal keys keep the
\* order they had.
RECURSIVE InsertDesc(_, _)
InsertDesc(x, s) ==
    IF s = << >> THEN << x >>
    ELSE IF x.key > Head(s).key THEN << x >> \o s
    ELSE << Head(s) >> \o InsertDesc(x, Tail(s))

RECURSIVE SortDesc(_)
SortDesc(s) ==
    IF s = << >> THEN << >>
    ELSE InsertDesc(s[Len(s)], SortDesc(SubSeq(s, 1, Len(s) - 1)))

(* ------------------------------------------------------------------ *)
(* MemStorage                                                          *)
(* Records keep ids and owner ids as strings and Date fields as        *)
(* milliseconds; every other field is a JavaScript value.              *)
(* ------------------------------------------------------------------ *)
\* randomUUID(): the n-th identifier drawn; identifiers never repeat.
randomUUID(n) == "uuid-" \o ToString(n)

\* The sample skills and courses of initializeSampleData. Of a course the
\* columns that identify it are kept; its description, duration, level,
\* rating and image are texts no operation reads.
SampleSkills ==
    << [name |-> Str("JavaScript"), level |-> Str("expert"), category |-> Str("Programming")],
       [name |-> Str("Python"), level |-> Str("advanced"), category |-> Str("Programming")],
       [name |-> Str("React"), level |-> Str("intermediate"), category |-> Str("Frontend")],
       [name |-> Str("Node.js"), level |-> Str("beginner"), category |-> Str("Backend")] >>

SampleCourses ==
    << [title |-> Str("Complete Web Development Bootcamp"), provider |-> Str("Coursera"),
        courseUrl |-> Str("https://coursera.org/web-development"),
        category |-> Str("Programming")],
       [title |-> Str("AWS Cloud Practitioner"), provider |-> Str("edX"),
        courseUrl |-> Str("https://edx.org/aws-cloud"), category |-> Str("Cloud")] >>

\* The store right after `new MemStorage()` at time t: the constructor calls
\* initializeSampleData, which has no await and so runs to its end. The
\* skills take the identifiers 1..4 and the courses 5..6.
initializeSampleData(t) ==
    [users |-> << [k |-> "default-user",
                   v |-> [id |-> "default-user", username |-> Str("alex"),
                          password |-> Str("password"), name |-> Str("Alex Rodriguez"),
                          email |-> Str("alex.rodriguez@email.com"),
                          phone |-> Str("+1 (555) 123-4567"), createdAt |-> t]] >>,
     resumes |-> EmptyMap,
     skills |-> [i \in 1..Len(SampleSkills) |->
                   [k |-> randomUUID(i),
                    v |-> [id |-> randomUUID(i), userId |-> "default-user",
                           name |-> SampleSkills[i].name, level |-> SampleSkills[i].level,
                           category |-> SampleSkills[i].category,
                           isInDemand |-> Bool(TRUE), addedAt |-> t]]],
     jobs |-> EmptyMap,
     careerPaths |-> EmptyMap,
     courses |-> [i \in 1..Len(SampleCourses) |->
                   [k |-> randomUUID(Len(SampleSkills) + i),
                    v |-> [id |-> randomUUID(Len(SampleSkills) + i),
                           title |-> SampleCourses[i].title,
                           provider |-> SampleCourses[i].provider,
                           courseUrl |-> SampleCourses[i].courseUrl,
                           category |-> SampleCourses[i].category,
                           isFree |-> Bool(TRUE), addedAt |-> t]]],
     activities |-> EmptyMap]

\* Identifiers drawn by the constructor.
SampleIds == Len(SampleSkills) + Len(SampleCourses)

\* The state a store operation works on: the maps, the number of identifiers
\* drawn so far, the current time (time) and the latest time the program has
\* read from the clock (now). Each create operation reads the clock with
\* new Date() and returns the new state and, as ret, the record it returns.

\* A createUser that takes the user name as the id.
createUserIdFromName(w, insertUser) ==
    LET id == insertUser.username.s
        user == [id |-> id,
                 username |-> insertUser.username,
                 password |-> insertUser.password,
                 name |-> OrElse(insertUser.name, Null),
                 email |-> OrElse(insertUser.email, Null),
                 phone |-> OrElse(insertUser.phone, Null),
                 createdAt |-> w.time]
    IN  [w EXCEPT !.storage.users = MapSet(@, id, user),
                  !.now = w.time,
                  !.ret = user]

createUser(w, insertUser) ==
    LET id == randomUUID(w.uuids + 1)
        user == [id |-> id,
                 username |-> insertUser.username,
                 password |-> insertUser.password,
                 name |-> OrElse(insertUser.name, Null),
                 email |-> OrElse(insertUser.email, Null),
                 phone |-> OrElse(insertUser.phone, Null),
                 createdAt |-> w.time]
    IN  [w EXCEPT !.storage.users = MapSet(@, id, user),
                  !.uuids = @ + 1,
                  !.now = w.time,
                  !.ret = user]

\* createResume: score and parsedData go through `|| null`.
createResume(w, insertResume) ==
    LET id == randomUUID(w.uuids + 1)
        resume == [id |-> id,
                   userId |-> insertResume.userId,
                   fileName |-> insertResume.fileName,
                   content |-> insertResume.content,
                   parsedData |-> OrElse(insertResume.parsedData, Null),
                   score |-> OrElse(insertResume.score, Null),
                   uploadedAt |-> w.time]
    IN  [w EXCEPT !.storage.resumes = MapSet(@, id, resume),
                  !.uuids = @ + 1,
                  !.now = w.time,
                  !.ret = resume]

\* A lookup that searches the keys of the map, so finds no resume.
getResumeByUserIdAmongKeys(storage, userId) ==
    LET all == [i \in 1..Len(storage.resumes) |-> storage.resumes[i].k]
        hits == {i \in 1..Len(all) : all[i] = userId}
    IN  IF hits = {} THEN Undefined
        ELSE storage.resumes[CHOOSE i \in hits : \A j \in hits : i <= j].v

\* A lookup that returns the user's latest resume.
getResumeByUserIdLatest(storage, userId) ==
    LET all == MapValues(storage.resumes)
        hits == {i \in 1..Len(all) : all[i].userId = userId}
    IN  IF hits = {} THEN Undefined
        ELSE all[CHOOSE i \in hits : \A j \in hits : i >= j]

\* getResumeByUserId: Array.find, the first resume of the user in insertion
\* order, or undefined.
getResumeByUserId(storage, userId) ==
    LET all == MapValues(storage.resumes)
        hits == {i \in 1..Len(all) : all[i].userId = userId}
    IN  IF hits = {} THEN Undefined
        ELSE all[CHOOSE i \in hits : \A j \in hits : i <= j]

\* { ...a, ...b }: the properties of b over those of a.
Spread(a, b) ==
    [f \in DOMAIN a \cup DOMAIN b |-> IF f \in DOMAIN b THEN b[f] ELSE a[f]]

\* An update that spreads the stored record over the patch.
updateResumeOldWins(w, id, data) ==
    LET resume == MapGet(w.storage.resumes, id)
    IN  IF resume = Undefined
        THEN [w EXCEPT !.ret = Undefined]
        ELSE LET updated == Spread(data, resume)
             IN  [w EXCEPT !.storage.resumes = MapSet(@, id, updated),
                           !.ret = updated]

\* updateResume: undefined for an unknown id; otherwise the stored record
\* with the patch spread over it, stored under the same key and returned.
updateResume(w, id, data) ==
    LET resume == MapGet(w.storage.resumes, id)
    IN  IF resume = Undefined
        THEN [w EXCEPT !.ret = Undefined]
        ELSE LET updated == Spread(resume, data)
             IN  [w EXCEPT !.storage.resumes = MapSet(@, id, updated),
                           !.ret = updated]

getSkillsByUserId(storage, userId) ==
    LET ofUser(skill) == skill.userId = userId
    IN  SelectSeq(MapValues(storage.skills), ofUser)

createSkill(w, insertSkill) ==
    LET id == randomUUID(w.uuids + 1)
        skill == [id |-> id,
                  userId |-> insertSkill.userId,
                  name |-> insertSkill.name,
                  level |-> insertSkill.level,
                  category |-> insertSkill.category,
                  isInDemand |-> OrElse(insertSkill.isInDemand, Null),
                  addedAt |-> w.time]
    IN  [w EXCEPT !.storage.skills = MapSet(@, id, skill),
                  !.uuids = @ + 1,
                  !.now = w.time,
                  !.ret = skill]

\* The sort key of the job lists: matchScore || 0.
JobSortKey(job) == OrElse(job.matchScore, Num(0)).n

\* String.prototype.includes: part occurs in s as a run of characters.
StringIncludes(s, part) ==
    \E i \in 1..(Len(s) - Len(part) + 1) : SubSeq(s, i, i + Len(part) - 1) = part

\* A location filter that keeps the jobs whose location is the one asked for.
getJobsLocationEquals(storage, filters) ==
    LET all == MapValues(storage.jobs)
        location == OptGet(filters, "location")
        matches(job) == job.location.s = location.s
        jobs == IF Truthy(location) /\ location # Str("All Locations")
                THEN SelectSeq(all, matches)
                ELSE all
        sorted == SortDesc([i \in 1..Len(jobs) |-> [key |-> JobSortKey(jobs[i]), v |-> jobs[i]]])
    IN  [i \in 1..Len(sorted) |-> sorted[i].v]

\* getJobs(filters): the jobs whose location includes filters.location when
\* that is a non-empty text other than 'All Locations', every job otherwise;
\* by matchScore descending. filters.experience is not read.
getJobs(storage, filters) ==
    LET all == MapValues(storage.jobs)
        location == OptGet(filters, "location")
        matches(job) == StringIncludes(job.location.s, location.s)
        jobs == IF Truthy(location) /\ location # Str("All Locations")
                THEN SelectSeq(all, matches)
                ELSE all
        sorted == SortDesc([i \in 1..Len(jobs) |-> [key |-> JobSortKey(jobs[i]), v |-> jobs[i]]])
    IN  [i \in 1..Len(sorted) |-> sorted[i].v]

createJob(w, insertJob) ==
    LET id == randomUUID(w.uuids + 1)
        job == [id |-> id,
                title |-> insertJob.title,
                description |-> insertJob.description,
                location |-> insertJob.location,
                company |-> insertJob.company,
                salary |-> OrElse(insertJob.salary, Null),
                requirements |-> OrElse(insertJob.requirements, Null),
                matchScore |-> OrElse(insertJob.matchScore, Null),
                postedAt |-> OrElse(insertJob.postedAt, Null),
                applyUrl |-> OrElse(insertJob.applyUrl, Null),
                fetchedAt |-> w.time]
    IN  [w EXCEPT !.storage.jobs = MapSet(@, id, job),
                  !.uuids = @ + 1,
                  !.now = w.time,
                  !.ret = job]

\* A filter that keeps the jobs whose score is above minScore.
getJobsByMatchScoreStrict(storage, minScore) ==
    LET above(job) == JobSortKey(job) > minScore
        kept == SelectSeq(MapValues(storage.jobs), above)
        sorted == SortDesc([i \in 1..Len(kept) |-> [key |-> JobSortKey(kept[i]), v |-> kept[i]]])
    IN  [i \in 1..Len(sorted) |-> sorted[i].v]

\* getJobsByMatchScore: the jobs with (matchScore || 0) >= minScore, by
\* matchScore descending.
getJobsByMatchScore(storage, minScore) ==
    LET atLeast(job) == JobSortKey(job) >= minScore
        kept == SelectSeq(MapValues(storage.jobs), atLeast)
        sorted == SortDesc([i \in 1..Len(kept) |-> [key |-> JobSortKey(kept[i]), v |-> kept[i]]])
    IN  [i \in 1..Len(sorted) |-> sorted[i].v]

createCareerPath(w, insertPath) ==
    LET id == randomUUID(w.uuids + 1)
        path == [id |-> id,
                 userId |-> insertPath.userId,
                 title |-> insertPath.title,
                 description |-> insertPath.description,
                 requiredSkills |-> OrElse(insertPath.requiredSkills, Null),
                 timeline |-> OrElse(insertPath.timeline, Null),
                 salaryRange |-> OrElse(insertPath.salaryRange, Null),
                 icon |-> OrElse(insertPath.icon, Null),
                 createdAt |-> w.time]
    IN  [w EXCEPT !.storage.careerPaths = MapSet(@, id, path),
                  !.uuids = @ + 1,
                  !.now = w.time,
                  !.ret = path]

\* A listing that finds no course.
getCoursesNone(storage) == SelectSeq(MapValues(storage.courses), LAMBDA course : FALSE)

\* getCourses() without a category.
getCourses(storage) == MapValues(storage.courses)

createCourse(w, insertCourse) ==
    LET id == randomUUID(w.uuids + 1)
        course == [id |-> id,
                   title |-> insertCourse.title,
                   description |-> insertCourse.description,
                   provider |-> insertCourse.provider,
                   courseUrl |-> insertCourse.courseUrl,
                   duration |-> OrElse(insertCourse.duration, Null),
                   level |-> OrElse(insertCourse.level, Null),
                   rating |-> OrElse(insertCourse.rating, Null),
                   imageUrl |-> OrElse(insertCourse.imageUrl, Null),
                   isFree |-> OrElse(insertCourse.isFree, Null),
                   category |-> OrElse(insertCourse.category, Null),
                   addedAt |-> w.time]
    IN  [w EXCEPT !.storage.courses = MapSet(@, id, course),
                  !.uuids = @ + 1,
                  !.now = w.time,
                  !.ret = course]

\* getActivitiesByUserId: the user's activities, by createdAt descending.
getActivitiesByUserId(storage, userId) ==
    LET ofUser(activity) == activity.userId = userId
        mine == SelectSeq(MapValues(storage.activities), ofUser)
        sorted == SortDesc([i \in 1..Len(mine) |-> [key |-> mine[i].createdAt, v |-> mine[i]]])
    IN  [i \in 1..Len(sorted) |-> sorted[i].v]

createActivity(w, insertActivity) ==
    LET id == randomUUID(w.uuids + 1)
        activity == [id |-> id,
                     userId |-> insertActivity.userId,
                     type |-> insertActivity.type,
                     description |-> insertActivity.description,
                     status |-> insertActivity.status,
                     createdAt |-> w.time]
    IN  [w EXCEPT !.storage.activities = MapSet(@, id, activity),
                  !.uuids = @ + 1,
                  !.now = w.time,
                  !.ret = activity]

(* ------------------------------------------------------------------ *)
(* routes.ts: upload middleware and the collaborator call              *)
(* ------------------------------------------------------------------ *)
defaultUserId == "default-user"

\* File names are sequences of characters, so that the extension is computed.
UpperCase == << "A", "B", "C", "D", "E", "F", "G", "H", "I", "J", "K", "L", "M",
                "N", "O", "P", "Q", "R", "S", "T", "U", "V", "W", "X", "Y", "Z" >>
LowerCase == << "a", "b", "c", "d", "e", "f", "g", "h", "i", "j", "k", "l", "m",
                "n", "o", "p", "q", "r", "s", "t", "u", "v", "w", "x", "y", "z" >>

\* String.prototype.toLowerCase
toLowerCase(name) ==
    [i \in 1..Len(name) |->
        IF \E u \in 1..Len(UpperCase) : UpperCase[u] = name[i]
        THEN LowerCase[CHOOSE u \in 1..Len(UpperCase) : UpperCase[u] = name[i]]
        ELSE name[i]]

\* path.extname: from the last "." on; empty without a "." or when the only
\* "." is the first character.
extname(name) ==
    LET dots == {i \in 1..Len(name) : name[i] = "."}
        last == CHOOSE i \in dots : \A j \in dots : j <= i
    IN  IF dots = {} \/ last = 1 THEN << >> ELSE SubSeq(name, last, Len(name))

\* The name as one string.
RECURSIVE Text(_)
Text(name) == IF name = << >> THEN "" ELSE Head(name) \o Text(Tail(name))

allowedTypes ==
    { << ".", "p", "d", "f" >>, << ".", "t", "x", "t" >>,
      << ".", "d", "o", "c", "x" >>, << ".", "d", "o", "c" >> }

\* A filter that calls back with acceptance for every name.
fileFilterAcceptsAll(originalname) == Len(originalname) >= 0

\* multer's fileFilter: the lower-cased extension is one of the allowed ones.
fileFilter(originalname) == toLowerCase(extname(originalname)) \in allowedTypes

\* multer's limits.fileSize, in bytes.
fileSizeLimit == 5 * 1024 * 1024

\* multer hands the file to the handler when the filter accepts it and the
\* size is within the limit; otherwise it ends the request with an error and
\* the handler does not run.
MulterAccepts(file) == fileFilter(file.originalname) /\ file.size <= fileSizeLimit

\* What an axios call comes to: a thrown error (network error, timeout after
\* 30 s, status outside 2xx) or the body of a 2xx answer.
AxiosError == [kind |-> "error"]
AxiosData(v) == [kind |-> "data", data |-> v]

\* callPythonService: the body, or {success: false, error} for a thrown error.
callPythonService(reply) ==
    IF reply.kind = "error"
    THEN Obj([success |-> Bool(FALSE), error |-> Str("request failed")])
    ELSE reply.data

\* One response: status and JSON body.
Response(status, body) == [status |-> status, body |-> body]

\* A res.json that sends a response whenever it is called.
SendAgain(w, status, body) ==
    [w EXCEPT !.sent = Append(@, Response(status, body))]

\* res.json / res.status(..).json: the response is sent. Once a response has
\* been sent, a further res.json throws (headers already sent) and sends
\* nothing.
Send(w, status, body) ==
    IF w.sent = << >>
    THEN [w EXCEPT !.sent = Append(@, Response(status, body))]
    ELSE w

\* console.error in a catch block of a handler: a line on stderr.
LogError(w, line) == [w EXCEPT !.errors = Append(@, line)]

(* ------------------------------------------------------------------ *)
(* POST /api/resume/upload                                             *)
(* ------------------------------------------------------------------ *)
\* A fallback list that lost its last skill.
fallbackSkillsShort == << Str("JavaScript"), Str("HTML") >>

\* The skills of the fallback branch.
fallbackSkills == << Str("JavaScript"), Str("HTML"), Str("CSS") >>

fallbackData ==
    Obj([name |-> Str("User"), email |-> Str(""), mobile_number |-> Str(""),
         skills |-> Arr(fallbackSkills), education |-> Arr(<< >>),
         experience |-> Arr(<< >>), total_experience |-> Num(0)])

\* The score of the fallback branch.
fallbackScore == 65

\* The catch block of the upload handler.
UploadCatch(w) ==
    Send(LogError(w, "Resume upload error:"), 500,
         [error |-> Str("Failed to process resume")])

\* An end of the try block that deletes the temp file and logs nothing.
UploadEpilogueWithoutLog(w, file) ==
    IF file.path \in DOMAIN w.uploads
    THEN [w EXCEPT !.uploads = [q \in DOMAIN @ \ {file.path} |-> @[q]]]
    ELSE UploadCatch(w)

\* "Log activity" and "Clean up temp file", the end of the try block.
UploadEpilogue(w, file) ==
    LET logged == createActivity(w,
                    [type |-> Str("resume_upload"),
                     description |-> Str("Uploaded and analyzed resume: "
                                         \o Text(file.originalname)),
                     userId |-> defaultUserId,
                     status |-> Str("completed")])
    IN  IF file.path \in DOMAIN logged.uploads
        THEN [logged EXCEPT !.uploads = [q \in DOMAIN @ \ {file.path} |-> @[q]]]
        ELSE UploadCatch(logged)

\* The fallback branch once readFile has returned: `content` is the text
\* read, or the read threw (the file is not there).
UploadFallback(w, file) ==
    IF file.path \notin DOMAIN w.uploads
    THEN UploadCatch(w)
    ELSE LET content == w.uploads[file.path]
             stored == createResume(w,
                         [content |-> content,
                          userId |-> defaultUserId,
                          fileName |-> Str(Text(file.originalname)),
                          parsedData |-> fallbackData,
                          score |-> Num(fallbackScore)])
             answered == Send(stored, 200,
                           [success |-> Bool(TRUE),
                            resume |-> stored.ret,
                            message |-> Str("Resume uploaded (basic parsing - Python service unavailable)"),
                            extractedSkills |-> Num(Len(fallbackSkills))])
         IN  UploadEpilogue(answered, file)

\* A skill loop that ends after its first createSkill.
CreateSkillsFirstOnly(w, names) ==
    IF names = << >> THEN w
    ELSE createSkill(w,
           [name |-> Head(names),
            userId |-> defaultUserId,
            level |-> Str("intermediate"),
            category |-> Str("technical"),
            isInDemand |-> Bool(TRUE)])

\* The skill loop: one createSkill per name. (createSkill of MemStorage does
\* not throw, so the catch inside the loop is never entered.)
RECURSIVE CreateSkills(_, _)
CreateSkills(w, names) ==
    IF names = << >> THEN w
    ELSE CreateSkills(createSkill(w,
                        [name |-> Head(names),
                         userId |-> defaultUserId,
                         level |-> Str("intermediate"),
                         category |-> Str("technical"),
                         isInDemand |-> Bool(TRUE)]),
                      Tail(names))

\* The branch that uses the collaborator's analysis.
UploadSuccess(w, file, pythonResponse) ==
    LET stored == createResume(w,
                    [content |-> Get(pythonResponse, "content"),
                     userId |-> defaultUserId,
                     fileName |-> Str(Text(file.originalname)),
                     parsedData |-> Get(pythonResponse, "parsedData"),
                     score |-> Get(pythonResponse, "score")])
        resume == stored.ret
        extractedSkills == OrElse(OptGet(Get(pythonResponse, "parsedData"), "skills"),
                                  Arr(<< >>))
    IN  IF ~IsArray(extractedSkills)
        THEN \* for..of over a value that is not iterable throws
             UploadCatch(stored)
        ELSE LET skilled == CreateSkills(stored, extractedSkills.a)
                 answered == Send(skilled, 200,
                               [success |-> Bool(TRUE),
                                resume |-> resume,
                                message |-> Get(pythonResponse, "message"),
                                extractedSkills |-> Num(Len(extractedSkills.a))])
             IN  UploadEpilogue(answered, file)

(* ------------------------------------------------------------------ *)
(* GET /api/dashboard/stats, GET /api/activities, POST /api/activities *)
(* ------------------------------------------------------------------ *)
\* jobs.length || 3
jobRecommendations(jobs) == OrElse(Num(Len(jobs)), Num(3))

\* The try block of the dashboard handler (the store does not throw).
DashboardStats(w) ==
    LET resume == getResumeByUserId(w.storage, defaultUserId)
        skills == getSkillsByUserId(w.storage, defaultUserId)
        jobs == getJobs(w.storage, Undefined)
        \* resume?.score || 0
        resumeScore == OrElse(IF resume = Undefined THEN Undefined ELSE resume.score,
                              Num(0))
    IN  Send(w, 200, [resumeScore |-> resumeScore,
                      skillMatches |-> Num(Len(skills)),
                      jobRecommendations |-> jobRecommendations(jobs)])

ListActivities(w) ==
    Send(w, 200, [activities |-> getActivitiesByUserId(w.storage, defaultUserId)])

\* A schema whose text columns have defaults: only the owner is required.
insertActivityRequiredOnlyUser == { "userId" }

\* The columns insertActivitySchema requires: the notNull columns of the
\* activities table without a default, after omit({id, createdAt}).
insertActivityRequired == { "userId", "type", "description", "status" }

\* insertActivitySchema.safeParse(body).success: the body is an object and
\* every required column is a string.
insertActivityValid(body) ==
    /\ body.t = "object"
    /\ \A f \in insertActivityRequired : Get(body, f).t = "string"

\* A handler that stores the activity under the userId of the body.
PostActivityKeepsUserId(w, body) ==
    IF ~insertActivityValid(body)
    THEN Send(w, 400, [error |-> Str("Invalid activity data")])
    ELSE LET created == createActivity(w,
                          [type |-> Get(body, "type"),
                           description |-> Get(body, "description"),
                           status |-> Get(body, "status"),
                           userId |-> Get(body, "userId").s])
         IN  Send(created, 200, [activity |-> created.ret])

\* The handler of POST /api/activities.
PostActivity(w, body) ==
    IF ~insertActivityValid(body)
    THEN Send(w, 400, [error |-> Str("Invalid activity data")])
    ELSE LET created == createActivity(w,
                          [type |-> Get(body, "type"),
                           description |-> Get(body, "description"),
                           status |-> Get(body, "status"),
                           \* ...validation.data, then userId: defaultUserId
                           userId |-> defaultUserId])
         IN  Send(created, 200, [activity |-> created.ret])

(* ------------------------------------------------------------------ *)
(* GET /api/resume, GET /api/skills, GET /api/courses                  *)
(* ------------------------------------------------------------------ *)
FetchResume(w) ==
    LET resume == getResumeByUserId(w.storage, defaultUserId)
    IN  IF resume = Undefined
        THEN Send(w, 404, [error |-> Str("No resume found")])
        ELSE Send(w, 200, [resume |-> resume])

\* The hard-coded in-demand skills of the skills handler.
demandSkills ==
    << Str("Machine Learning"), Str("Docker"), Str("AWS"), Str("GraphQL"),
       Str("Kubernetes"), Str("TypeScript") >>

ListSkills(w) ==
    LET userSkills == getSkillsByUserId(w.storage, defaultUserId)
    IN  Send(w, 200, [userSkills |-> userSkills,
                      demandSkills |-> demandSkills,
                      totalSkills |-> Num(Len(userSkills)),
                      demandSkillsCount |-> Num(Len(demandSkills))])

\* The courses the handler seeds into a store without courses.
fallbackCourses ==
    << [title |-> Str("Complete React Developer Course"),
        description |-> Str("Learn React.js"), provider |-> Str("freeCodeCamp"),
        courseUrl |-> Str("https://www.freecodecamp.org/learn/front-end-development-libraries/"),
        duration |-> Str("20 hours"), level |-> Str("Beginner"),
        category |-> Str("Frontend"), rating |-> Str("4.8"), imageUrl |-> Null,
        isFree |-> Bool(TRUE)],
       [title |-> Str("Python for Everybody Specialization"),
        description |-> Str("Learn to program"), provider |-> Str("Coursera"),
        courseUrl |-> Str("https://www.coursera.org/specializations/python"),
        duration |-> Str("8 months"), level |-> Str("Beginner"),
        category |-> Str("Programming"), rating |-> Str("4.8"), imageUrl |-> Null,
        isFree |-> Bool(TRUE)],
       [title |-> Str("CS50's Introduction to Computer Science"),
        description |-> Str("Harvard's introduction"), provider |-> Str("edX"),
        courseUrl |-> Str("https://www.edx.org/course/cs50s-introduction-to-computer-science"),
        duration |-> Str("12 weeks"), level |-> Str("Beginner"),
        category |-> Str("Computer Science"), rating |-> Str("4.9"), imageUrl |-> Null,
        isFree |-> Bool(TRUE)] >>

RECURSIVE SeedCourses(_, _)
SeedCourses(w, courses) ==
    IF courses = << >> THEN w
    ELSE SeedCourses(createCourse(w, Head(courses)), Tail(courses))

\* A handler that seeds without looking at what the store holds.
ListCoursesAlwaysSeeds(w) ==
    LET seeded == SeedCourses(w, fallbackCourses)
    IN  Send(seeded, 200, [courses |-> getCourses(seeded.storage)])

ListCourses(w) ==
    LET courses == getCourses(w.storage)
    IN  IF Len(courses) = 0
        THEN LET seeded == SeedCourses(w, fallbackCourses)
             IN  Send(seeded, 200, [courses |-> getCourses(seeded.storage)])
        ELSE Send(w, 200, [courses |-> courses])

(* ------------------------------------------------------------------ *)
(* GET /api/jobs                                                       *)
(* ------------------------------------------------------------------ *)
\* The static jobs, with the fields that tell them apart.
fallbackJobs ==
    << Obj([id |-> Str("job-1"), title |-> Str("Full Stack Developer"),
            company |-> Str("TechCorp"), location |-> Str("Remote"),
            matchScore |-> Num(85)]),
       Obj([id |-> Str("job-2"), title |-> Str("Frontend Developer"),
            company |-> Str("WebStudio"), location |-> Str("Remote"),
            matchScore |-> Num(78)]),
       Obj([id |-> Str("job-3"), title |-> Str("Python Developer"),
            company |-> Str("DataTech"), location |-> Str("Remote"),
            matchScore |-> Num(72)]) >>

\* skills.map(s => s.name)
SkillNames(storage) ==
    LET skills == getSkillsByUserId(storage, defaultUserId)
    IN  [i \in 1..Len(skills) |-> skills[i].name]

\* A slice that returns the whole array.
SliceWhole(a, n) == SubSeq(a, 1, Len(a))

\* Array.prototype.slice(0, n)
Slice(a, n) == SubSeq(a, 1, IF Len(a) < n THEN Len(a) ELSE n)

\* The loop that stores the jobs of the answer; a jobData whose fields cannot
\* be read throws inside the inner try and is skipped.
RECURSIVE StoreJobs(_, _)
StoreJobs(w, jobs) ==
    IF jobs = << >> THEN w
    ELSE LET jobData == Head(jobs)
         IN  IF Nullish(jobData) THEN StoreJobs(w, Tail(jobs))
             ELSE StoreJobs(createJob(w,
                              [title |-> Get(jobData, "title"),
                               description |-> Get(jobData, "description"),
                               location |-> Get(jobData, "location"),
                               company |-> Get(jobData, "company"),
                               salary |-> Get(jobData, "salary"),
                               requirements |-> Get(jobData, "requirements"),
                               matchScore |-> Get(jobData, "matchScore"),
                               postedAt |-> Get(jobData, "postedAt"),
                               applyUrl |-> Get(jobData, "applyUrl")]),
                            Tail(jobs))

\* pythonResponse.jobs.slice(0, 10): the jobs of one answer that are stored.
storedJobsLimit == 10

\* A catch block that answers like those of the other handlers.
JobsCatchAnswers500(w) ==
    Send(LogError(w, "Job fetching error:"), 500, [error |-> Str("Failed to fetch jobs")])

\* The catch block of the jobs handler.
JobsCatch(w) ==
    Send(LogError(w, "Job fetching error:"), 200, [success |-> Bool(TRUE), jobs |-> Arr(fallbackJobs),
                  source |-> Str("fallback_data"),
                  message |-> Str("Error occurred - Using fallback data")])

\* A fallback answer that passes on the source field of the failed call.
JobsFallbackPassesSource(w) ==
    Send(w, 200, [success |-> Bool(TRUE), jobs |-> Arr(fallbackJobs),
                  source |-> Undefined,
                  message |-> Str("Using fallback data - External job API unavailable")])

\* An else branch that stores the static jobs before it answers.
JobsFallbackStoresJobs(w) ==
    Send(StoreJobs(w, fallbackJobs), 200,
         [success |-> Bool(TRUE), jobs |-> Arr(fallbackJobs),
          source |-> Str("fallback_data"),
          message |-> Str("Using fallback data - External job API unavailable")])

\* The else branch of the jobs handler: the static jobs.
JobsFallback(w) ==
    Send(w, 200, [success |-> Bool(TRUE), jobs |-> Arr(fallbackJobs),
                  source |-> Str("fallback_data"),
                  message |-> Str("Using fallback data - External job API unavailable")])

\* The jobs handler from the return of the collaborator call on.
JobsAfterCall(w, pythonResponse) ==
    IF Nullish(pythonResponse)
    THEN JobsCatch(w)
    ELSE IF Truthy(Get(pythonResponse, "success"))
    THEN LET jobs == Get(pythonResponse, "jobs")
         IN  IF ~IsArray(jobs)
             THEN \* pythonResponse.jobs.slice throws
                  JobsCatch(w)
             ELSE Send(StoreJobs(w, Slice(jobs.a, storedJobsLimit)), 200,
                       [success |-> Bool(TRUE), jobs |-> jobs,
                        source |-> Get(pythonResponse, "source"),
                        message |-> Get(pythonResponse, "message")])
    ELSE JobsFallback(w)

(* ------------------------------------------------------------------ *)
(* GET /api/career-paths                                               *)
(* ------------------------------------------------------------------ *)
frontendSkills == << Str("HTML"), Str("CSS"), Str("JavaScript"), Str("React"), Str("TypeScript") >>
fullstackSkills ==
    << Str("React"), Str("Node.js"), Str("Python"), Str("SQL"), Str("Git"), Str("Docker") >>

\* Array.prototype.includes
Includes(a, x) == \E i \in 1..Len(a) : a[i] = x

\* A fallback path that reports every required skill as missing.
FallbackPathMissingAll(id, title, required, skillNames) ==
    LET isRequired(x) == Includes(required, x)
    IN  Obj([id |-> Str(id), title |-> Str(title),
             requiredSkills |-> Arr(required),
             matchingSkills |-> Arr(SelectSeq(skillNames, isRequired)),
             missingSkills |-> Arr(required)])

\* One fallback path: matchingSkills filters the user's names by the
\* required list, missingSkills filters the required list by the names.
FallbackPath(id, title, required, skillNames) ==
    LET isRequired(x) == Includes(required, x)
        isMissing(x) == ~Includes(skillNames, x)
    IN  Obj([id |-> Str(id), title |-> Str(title),
             requiredSkills |-> Arr(required),
             matchingSkills |-> Arr(SelectSeq(skillNames, isRequired)),
             missingSkills |-> Arr(SelectSeq(required, isMissing))])

fallbackPaths(skillNames) ==
    << FallbackPath("path-frontend", "Frontend Developer", frontendSkills, skillNames),
       FallbackPath("path-fullstack", "Full Stack Developer", fullstackSkills, skillNames) >>

RECURSIVE StorePaths(_, _)
StorePaths(w, paths) ==
    IF paths = << >> THEN w
    ELSE LET pathData == Head(paths)
         IN  IF Nullish(pathData) THEN StorePaths(w, Tail(paths))
             ELSE StorePaths(createCareerPath(w,
                               [title |-> Get(pathData, "title"),
                                description |-> Get(pathData, "description"),
                                userId |-> defaultUserId,
                                requiredSkills |-> Get(pathData, "requiredSkills"),
                                timeline |-> Get(pathData, "timeline"),
                                salaryRange |-> Get(pathData, "salaryRange"),
                                icon |-> Get(pathData, "icon")]),
                             Tail(paths))

\* The catch block of the career-paths handler.
PathsCatch(w) ==
    Send(LogError(w, "Career paths error:"), 500,
         [error |-> Str("Failed to fetch career paths")])

\* The career-paths handler from the return of the collaborator call on;
\* skillNames was read before the call.
PathsAfterCall(w, pythonResponse, skillNames) ==
    IF Nullish(pythonResponse)
    THEN PathsCatch(w)
    ELSE IF Truthy(Get(pythonResponse, "success"))
    THEN LET paths == Get(pythonResponse, "paths")
         IN  IF ~IsArray(paths)
             THEN \* for..of over a value that is not iterable throws
                  PathsCatch(w)
             ELSE Send(StorePaths(w, paths.a), 200, [paths |-> paths])
    ELSE Send(w, 200, [paths |-> Arr(fallbackPaths(skillNames))])

(* ------------------------------------------------------------------ *)
(* Inputs of the model                                                 *)
(* ------------------------------------------------------------------ *)
\* Uploaded files: one that is accepted only because the extension is
\* compared in lower case, and one with a refused extension.
UploadFiles ==
    { [originalname |-> << "C", "V", ".", "P", "d", "f" >>, size |-> 2048,
       text |-> Str("raw resume text")],
      [originalname |-> << "c", "v", ".", "e", "x", "e" >>, size |-> 2048,
       text |-> Str("raw resume text")] }

\* A successful answer to POST /parse-resume.
ParseSuccess(score, parsedData) ==
    AxiosData(Obj([success |-> Bool(TRUE), content |-> Str("parsed resume text"),
                   parsedData |-> parsedData, score |-> score,
                   message |-> Str("Resume analyzed")]))

\* Answers to POST /parse-resume: a failed call, a body that is no
\* well-formed success, and successes (score 0 without parsedData, score 87
\* with a list of skills).
ParseReplies ==
    { AxiosError,
      AxiosData(Null),
      ParseSuccess(Num(0), Undefined),
      ParseSuccess(Num(87), Obj([skills |-> Arr(<< Str("Go"), Str("Python") >>)])) }

\* One job as the collaborator reports it.
JobData(title, matchScore) ==
    Obj([title |-> Str(title), company |-> Str("Acme"), location |-> Str("Remote"),
         description |-> Str("about the job"), matchScore |-> matchScore])

\* A list of n jobs with the titles job 1 .. job n.
JobList(n) == [i \in 1..n |-> JobData("job " \o ToString(i), Num(50 + i))]

\* Answers to GET /jobs: a failed call, a success without a jobs list, with
\* an empty list, with one job (the collaborator itself reporting that it
\* served fallback data), and with one job more than the handler stores.
JobsReplies ==
    { AxiosError,
      AxiosData(Obj([success |-> Bool(TRUE), source |-> Str("remotive_api")])),
      AxiosData(Obj([success |-> Bool(TRUE), jobs |-> Arr(<< >>),
                     source |-> Str("remotive_api"), message |-> Str("Found 0 jobs")])),
      AxiosData(Obj([success |-> Bool(TRUE),
                     jobs |-> Arr(<< JobData("Backend Engineer", Num(90)) >>),
                     source |-> Str("fallback_data"), message |-> Str("Found 1 jobs")])),
      AxiosData(Obj([success |-> Bool(TRUE),
                     jobs |-> Arr(JobList(storedJobsLimit + 1)),
                     source |-> Str("remotive_api"), message |-> Str("Found 11 jobs")])) }

\* Answers to GET /career-paths: a failed call, a success without a paths
\* list, a success with one path.
PathsReplies ==
    { AxiosError,
      AxiosData(Obj([success |-> Bool(TRUE)])),
      AxiosData(Obj([success |-> Bool(TRUE),
                     paths |-> Arr(<< Obj([title |-> Str("Data Engineer"),
                                           description |-> Str("pipelines")]) >>)])) }

\* Bodies of POST /api/activities: without userId, complete (with another
\* user's id), without type.
ActivityBodies ==
    { Obj([type |-> Str("note"), description |-> Str("d"), status |-> Str("new")]),
      Obj([userId |-> Str("someone-else"), type |-> Str("note"),
           description |-> Str("d"), status |-> Str("new")]),
      Obj([userId |-> Str("default-user"), description |-> Str("d"),
           status |-> Str("new")]) }

(* ------------------------------------------------------------------ *)
(* State                                                               *)
(* ------------------------------------------------------------------ *)
VARIABLES
    storage,    \* the MemStorage singleton: its seven maps
    uuids,      \* identifiers drawn from randomUUID so far
    now,        \* the latest time read from the clock, in milliseconds
    uploads,    \* the temp files of uploads/: path -> text
    inflight,   \* handlers suspended at an await on the collaborator or the disk
    started,    \* requests started that may write to the store
    handled     \* the request handled last: input, collaborator reply, responses,
                \* lines its catch block wrote

vars == << storage, uuids, now, uploads, inflight, started, handled >>

\* No collaborator call was made.
NoCall == [kind |-> "none"]

\* The state a handler starts from when it runs at time t.
WorldAt(t) ==
    [storage |-> storage, uuids |-> uuids, now |-> now, time |-> t,
     uploads |-> uploads, sent |-> << >>, errors |-> << >>, ret |-> Undefined]

\* A handler that does not read the clock.
World == WorldAt(now)

\* The times a step may run at: the clock does not go back.
Times == now..MaxClock

\* A handler has run to its end from w.
Finish(w, endpoint, input, reply) ==
    /\ storage' = w.storage
    /\ uuids' = w.uuids
    /\ now' = w.now
    /\ uploads' = w.uploads
    /\ handled' = [endpoint |-> endpoint, input |-> input, reply |-> reply,
                   sent |-> w.sent, errors |-> w.errors]

Init ==
    /\ storage = initializeSampleData(0)
    /\ uuids = SampleIds
    /\ now = 0
    /\ uploads = [q \in {} |-> Str("")]
    /\ inflight = {}
    /\ started = 0
    /\ handled = [endpoint |-> "none", input |-> Undefined, reply |-> NoCall,
                  sent |-> << >>, errors |-> << >>]

\* A handler suspends at an await.
Suspend(endpoint, pc, input, skillNames, reply) ==
    [rid |-> started + 1, endpoint |-> endpoint, pc |-> pc, input |-> input,
     skillNames |-> skillNames, reply |-> reply]

CanStart == started < MaxRequests /\ Cardinality(inflight) < MaxInFlight

\* POST /api/resume/upload: multer refuses the file (extension, size).
\* The upload handler does not run; multer passes its error on and the
\* request ends with an error response.
UploadRefused ==
    \E file \in UploadFiles :
        /\ ~MulterAccepts(file)
        /\ handled' = [endpoint |-> "POST /api/resume/upload", input |-> file,
                       reply |-> NoCall,
                       sent |-> << Response(500, [error |-> Str("upload refused")]) >>,
                       errors |-> << >>]
        /\ UNCHANGED << storage, uuids, now, uploads, inflight, started >>

\* POST /api/resume/upload without a file.
UploadNoFile ==
    /\ Finish(Send(World, 400, [error |-> Str("No file uploaded")]),
              "POST /api/resume/upload", Undefined, NoCall)
    /\ UNCHANGED << inflight, started >>

\* POST /api/resume/upload with a file multer accepts: the temp file is
\* written, the handler runs up to the collaborator call.
UploadStart ==
    \E file \in UploadFiles :
        /\ MulterAccepts(file)
        /\ CanStart
        /\ LET path == "uploads/" \o ToString(started + 1)
               reqFile == [originalname |-> file.originalname, size |-> file.size,
                           text |-> file.text, path |-> path]
           IN  /\ uploads' = [q \in DOMAIN uploads \cup {path} |->
                                IF q = path THEN file.text ELSE uploads[q]]
               /\ inflight' = inflight \cup
                     {Suspend("POST /api/resume/upload", "call", reqFile, << >>, NoCall)}
        /\ started' = started + 1
        /\ UNCHANGED << storage, uuids, now, handled >>

\* An upload that awaits readFile after the call on every path.
UploadReplyAlwaysReads ==
    \E r \in inflight, reply \in ParseReplies :
        /\ r.endpoint = "POST /api/resume/upload"
        /\ r.pc = "call"
        /\ LET pythonResponse == callPythonService(reply)
           IN  IF Nullish(pythonResponse)
               THEN /\ Finish(UploadCatch(World), r.endpoint, r.input, reply)
                    /\ inflight' = inflight \ {r}
               ELSE /\ inflight' = (inflight \ {r}) \cup
                                   {[r EXCEPT !.pc = "read", !.reply = reply]}
                    /\ UNCHANGED << storage, uuids, now, uploads, handled >>
        /\ UNCHANGED started

\* The collaborator call of an upload returns.
UploadReply ==
    \E r \in inflight, reply \in ParseReplies :
        /\ r.endpoint = "POST /api/resume/upload"
        /\ r.pc = "call"
        /\ LET pythonResponse == callPythonService(reply)
           IN  IF Nullish(pythonResponse)
               THEN \* reading .success of null throws
                    /\ Finish(UploadCatch(World), r.endpoint, r.input, reply)
                    /\ inflight' = inflight \ {r}
               ELSE IF ~Truthy(Get(pythonResponse, "success"))
               THEN \* fallback: await fs.promises.readFile
                    /\ inflight' = (inflight \ {r}) \cup
                                   {[r EXCEPT !.pc = "read", !.reply = reply]}
                    /\ UNCHANGED << storage, uuids, now, uploads, handled >>
               ELSE /\ \E t \in Times :
                          Finish(UploadSuccess(WorldAt(t), r.input, pythonResponse),
                                 r.endpoint, r.input, reply)
                    /\ inflight' = inflight \ {r}
        /\ UNCHANGED started

\* readFile of the fallback branch returns.
UploadRead ==
    \E r \in inflight :
        /\ r.endpoint = "POST /api/resume/upload"
        /\ r.pc = "read"
        /\ \E t \in Times :
              Finish(UploadFallback(WorldAt(t), r.input), r.endpoint, r.input, r.reply)
        /\ inflight' = inflight \ {r}
        /\ UNCHANGED started

\* GET /api/dashboard/stats
GetStats ==
    /\ Finish(DashboardStats(World), "GET /api/dashboard/stats", Undefined, NoCall)
    /\ UNCHANGED << inflight, started >>

\* GET /api/activities
GetActivities ==
    /\ Finish(ListActivities(World), "GET /api/activities", Undefined, NoCall)
    /\ UNCHANGED << inflight, started >>

\* GET /api/resume
GetResume ==
    /\ Finish(FetchResume(World), "GET /api/resume", Undefined, NoCall)
    /\ UNCHANGED << inflight, started >>

\* GET /api/skills
GetSkills ==
    /\ Finish(ListSkills(World), "GET /api/skills", Undefined, NoCall)
    /\ UNCHANGED << inflight, started >>

\* GET /api/courses
GetCourses ==
    /\ Finish(ListCourses(World), "GET /api/courses", Undefined, NoCall)
    /\ UNCHANGED << inflight, started >>

\* POST /api/activities with a body that fails validation.
PostActivityInvalid ==
    \E body \in ActivityBodies :
        /\ ~insertActivityValid(body)
        /\ Finish(PostActivity(World, body), "POST /api/activities", body, NoCall)
        /\ UNCHANGED << inflight, started >>

\* POST /api/activities with a body that passes validation.
PostActivityValid ==
    \E body \in ActivityBodies :
        /\ insertActivityValid(body)
        /\ started < MaxRequests
        /\ \E t \in Times :
              Finish(PostActivity(WorldAt(t), body), "POST /api/activities", body, NoCall)
        /\ started' = started + 1
        /\ UNCHANGED inflight

\* GET /api/jobs up to the collaborator call.
JobsStart ==
    /\ CanStart
    /\ inflight' = inflight \cup
          {Suspend("GET /api/jobs", "call", Undefined, SkillNames(storage), NoCall)}
    /\ started' = started + 1
    /\ UNCHANGED << storage, uuids, now, uploads, handled >>

\* A jobs handler that calls the collaborator again after a failed call.
JobsReplyRetries ==
    \E r \in inflight, reply \in JobsReplies :
        /\ r.endpoint = "GET /api/jobs"
        /\ IF reply.kind = "error" /\ r.reply = NoCall
           THEN /\ inflight' = (inflight \ {r}) \cup {[r EXCEPT !.reply = reply]}
                /\ UNCHANGED << storage, uuids, now, uploads, handled >>
           ELSE /\ \E t \in Times :
                      Finish(JobsAfterCall(WorldAt(t), callPythonService(reply)),
                             r.endpoint, r.input, reply)
                /\ inflight' = inflight \ {r}
        /\ UNCHANGED started

\* The collaborator call of GET /api/jobs returns.
JobsReply ==
    \E r \in inflight, reply \in JobsReplies :
        /\ r.endpoint = "GET /api/jobs"
        /\ \E t \in Times :
              Finish(JobsAfterCall(WorldAt(t), callPythonService(reply)),
                     r.endpoint, r.input, reply)
        /\ inflight' = inflight \ {r}
        /\ UNCHANGED started

\* GET /api/career-paths up to the collaborator call.
PathsStart ==
    /\ CanStart
    /\ inflight' = inflight \cup
          {Suspend("GET /api/career-paths", "call", Undefined, SkillNames(storage), NoCall)}
    /\ started' = started + 1
    /\ UNCHANGED << storage, uuids, now, uploads, handled >>

\* The collaborator call of GET /api/career-paths returns.
PathsReply ==
    \E r \in inflight, reply \in PathsReplies :
        /\ r.endpoint = "GET /api/career-paths"
        /\ \E t \in Times :
              Finish(PathsAfterCall(WorldAt(t), callPythonService(reply), r.skillNames),
                     r.endpoint, r.input, reply)
        /\ inflight' = inflight \ {r}
        /\ UNCHANGED started

Next ==
    \/ UploadRefused
    \/ UploadNoFile
    \/ UploadStart
    \/ UploadReply
    \/ UploadRead
    \/ GetStats
    \/ GetActivities
    \/ GetResume
    \/ GetSkills
    \/ GetCourses
    \/ PostActivityInvalid
    \/ PostActivityValid
    \/ JobsStart
    \/ JobsReply
    \/ PathsStart
    \/ PathsReply

Spec == Init /\ [][Next]_vars

(* ------------------------------------------------------------------ *)
(* Uploads whose temp file may be lost                                 *)
(* ------------------------------------------------------------------ *)
\* The directory uploads/ is shared with the rest of the machine: a temp
\* file may be gone by the time fs.promises.readFile or fs.unlinkSync of the
\* handler reaches it, and both then throw.
TempFileRemoved ==
    \E path \in DOMAIN uploads :
        /\ uploads' = [q \in DOMAIN uploads \ {path} |-> uploads[q]]
        /\ UNCHANGED << storage, uuids, now, inflight, started, handled >>

UploadNext ==
    \/ UploadRefused
    \/ UploadNoFile
    \/ UploadStart
    \/ UploadReply
    \/ UploadRead
    \/ TempFileRemoved

UploadSpec == Init /\ [][UploadNext]_vars

(* ------------------------------------------------------------------ *)
(* The courses handler on a store that may hold no courses             *)
(* ------------------------------------------------------------------ *)
\* The handlers are written against the IStorage interface. The handler of
\* GET /api/courses is run here on both stores it distinguishes: one that
\* holds no courses and the one the constructor of MemStorage leaves.
CoursesInit ==
    /\ storage \in { initializeSampleData(0),
                      [initializeSampleData(0) EXCEPT !.courses = EmptyMap] }
    /\ uuids = SampleIds
    /\ now = 0
    /\ uploads = [q \in {} |-> Str("")]
    /\ inflight = {}
    /\ started = 0
    /\ handled = [endpoint |-> "none", input |-> Undefined, reply |-> NoCall,
                  sent |-> << >>, errors |-> << >>]

\* Course listings among the requests that do not wait for the collaborator.
CoursesNext ==
    \/ GetCourses
    \/ GetStats
    \/ GetActivities
    \/ PostActivityInvalid
    \/ PostActivityValid

CoursesSpec == CoursesInit /\ [][CoursesNext]_vars

(* ------------------------------------------------------------------ *)
(* MemStorage called through IStorage by any caller                    *)
(* ------------------------------------------------------------------ *)
\* Arguments of the store operations.
InsertUsers ==
    { [username |-> Str("sam"), password |-> Str("pw"), name |-> Str("Sam"),
       email |-> Undefined, phone |-> Undefined] }

InsertResumes ==
    { [userId |-> defaultUserId, fileName |-> Str("a.pdf"), content |-> Str("text"),
       parsedData |-> Undefined, score |-> Num(80)] }

InsertSkills ==
    { [userId |-> defaultUserId, name |-> Str("Go"), level |-> Str("beginner"),
       category |-> Str("Backend"), isInDemand |-> Undefined] }

\* Jobs without a matchScore, with a negative one and with a positive one,
\* in three places.
InsertJobs ==
    { [title |-> Str("Engineer"), company |-> Str("Acme"), location |-> Str(job[1]),
       description |-> Str("about the job"), salary |-> Undefined,
       requirements |-> Undefined, matchScore |-> job[2], postedAt |-> Undefined,
       applyUrl |-> Undefined] :
      job \in { << "Remote", Undefined >>, << "Berlin", Num(-5) >>,
                << "Berlin or Remote", Num(90) >> } }

\* Filters given to getJobs: none, an experience only, an empty location,
\* 'All Locations', and locations with and without an experience.
JobFilters ==
    { Undefined,
      Obj([experience |-> Str("Senior")]),
      Obj([location |-> Str("")]),
      Obj([location |-> Str("All Locations")]),
      Obj([location |-> Str("Remote")]),
      Obj([location |-> Str("Remote"), experience |-> Str("Senior")]),
      Obj([location |-> Str("Berlin")]) }

InsertCareerPaths ==
    { [userId |-> defaultUserId, title |-> Str("Data Engineer"),
       description |-> Str("pipelines"), requiredSkills |-> Arr(<< Str("SQL") >>),
       timeline |-> Undefined, salaryRange |-> Undefined, icon |-> Undefined] }

InsertCourses ==
    { [title |-> Str("SQL Basics"), description |-> Str("queries"),
       provider |-> Str("edX"), courseUrl |-> Str("https://edx.org/sql"),
       duration |-> Undefined, level |-> Undefined, rating |-> Undefined,
       imageUrl |-> Undefined, isFree |-> Bool(FALSE), category |-> Undefined] }

InsertActivities ==
    { [userId |-> defaultUserId, type |-> Str("note"), description |-> Str("d"),
       status |-> Str("new")] }

\* Patches of updateResume: a new score, and a new file name with an id.
ResumePatches ==
    { [score |-> Num(50)],
      [id |-> "patched", fileName |-> Str("b.pdf")] }

\* Ids given to updateResume: those of the stored resumes and an unknown one.
ResumeIds == MapKeys(storage.resumes) \cup { "uuid-0" }

\* Thresholds given to getJobsByMatchScore.
MinScores == { 0, 50 }

StoreInit ==
    /\ storage = initializeSampleData(0)
    /\ uuids = SampleIds
    /\ now = 0
    /\ uploads = [q \in {} |-> Str("")]
    /\ inflight = {}
    /\ started = 0
    /\ handled = [op |-> "constructor", args |-> Undefined, ret |-> Undefined]

\* A call of a store operation has returned from w.
Returned(w, op, args) ==
    /\ storage' = w.storage
    /\ uuids' = w.uuids
    /\ now' = w.now
    /\ handled' = [op |-> op, args |-> args, ret |-> w.ret]
    /\ UNCHANGED << uploads, inflight >>

\* A call that creates a record: calls are counted up to MaxRequests.
Created(w, op, args) ==
    /\ started < MaxRequests
    /\ Returned(w, op, args)
    /\ started' = started + 1

\* A call that reads the store.
Read(ret, op, args) ==
    /\ handled' = [op |-> op, args |-> args, ret |-> ret]
    /\ UNCHANGED << storage, uuids, now, uploads, inflight, started >>

StoreCreateUser ==
    \E insertUser \in InsertUsers, t \in Times :
        Created(createUser(WorldAt(t), insertUser), "createUser", insertUser)

StoreCreateResume ==
    \E insertResume \in InsertResumes, t \in Times :
        Created(createResume(WorldAt(t), insertResume), "createResume", insertResume)

StoreUpdateResume ==
    \E id \in ResumeIds, data \in ResumePatches :
        /\ Returned(updateResume(World, id, data), "updateResume",
                    [id |-> id, data |-> data])
        /\ UNCHANGED started

StoreCreateSkill ==
    \E insertSkill \in InsertSkills, t \in Times :
        Created(createSkill(WorldAt(t), insertSkill), "createSkill", insertSkill)

StoreGetJobs ==
    \E filters \in JobFilters :
        Read(getJobs(storage, filters), "getJobs", filters)

StoreCreateJob ==
    \E insertJob \in InsertJobs, t \in Times :
        Created(createJob(WorldAt(t), insertJob), "createJob", insertJob)

StoreGetJobsByMatchScore ==
    \E minScore \in MinScores :
        Read(getJobsByMatchScore(storage, minScore), "getJobsByMatchScore", minScore)

StoreCreateCareerPath ==
    \E insertPath \in InsertCareerPaths, t \in Times :
        Created(createCareerPath(WorldAt(t), insertPath), "createCareerPath", insertPath)

StoreCreateCourse ==
    \E insertCourse \in InsertCourses, t \in Times :
        Created(createCourse(WorldAt(t), insertCourse), "createCourse", insertCourse)

StoreCreateActivity ==
    \E insertActivity \in InsertActivities, t \in Times :
        Created(createActivity(WorldAt(t), insertActivity), "createActivity", insertActivity)

StoreNext ==
    \/ StoreCreateUser
    \/ StoreCreateResume
    \/ StoreUpdateResume
    \/ StoreCreateSkill
    \/ StoreGetJobs
    \/ StoreCreateJob
    \/ StoreGetJobsByMatchScore
    \/ StoreCreateCareerPath
    \/ StoreCreateCourse
    \/ StoreCreateActivity

StoreSpec == StoreInit /\ [][StoreNext]_vars

(* ------------------------------------------------------------------ *)
(* Properties                                                          *)
(* ------------------------------------------------------------------ *)
UploadEndpoint == "POST /api/resume/upload"
JobsEndpoint == "GET /api/jobs"
PathsEndpoint == "GET /api/career-paths"
StatsEndpoint == "GET /api/dashboard/stats"
ActivitiesPost == "POST /api/activities"
CoursesEndpoint == "GET /api/courses"
ResumeEndpoint == "GET /api/resume"
SkillsEndpoint == "GET /api/skills"
ActivitiesEndpoint == "GET /api/activities"

\* The collaborator answered the call with a body that reports success.
Succeeded(reply) ==
    /\ reply.kind = "data"
    /\ ~Nullish(reply.data)
    /\ Truthy(Get(reply.data, "success"))

\* The call itself failed: network error, timeout or a status outside 2xx.
CallFailed(reply) == reply.kind = "error"

\* The handler sent exactly one response, with this status.
Answered(status) == Len(handled.sent) = 1 /\ handled.sent[1].status = status

\* The body of the response.
Body == handled.sent[1].body

\* C1: for every upload where the collaborator call succeeds, the score of
\* the resume returned in the response, and of the resume stored, equals the
\* score the collaborator provided.
C1_ScoreIsCollaboratorScore ==
    (/\ handled.endpoint = UploadEndpoint
     /\ Succeeded(handled.reply)
     /\ Answered(200))
    => /\ Body.resume.score = Get(handled.reply.data, "score")
       /\ MapGet(storage.resumes, Body.resume.id).score = Get(handled.reply.data, "score")

\* C2: once the handler of an upload that carried a file has finished, on
\* whichever path, the temp file of that upload has been deleted.
C2_TempFileDeleted ==
    (/\ handled.endpoint = UploadEndpoint
     /\ handled.reply # NoCall)
    => handled.input.path \notin DOMAIN uploads

\* C3 as claimed: GET /api/jobs always answers with HTTP success and a
\* non-empty jobs array.
C3_JobsNeverEmpty ==
    handled.endpoint = JobsEndpoint
    => /\ Answered(200)
       /\ IsArray(Body.jobs)
       /\ Len(Body.jobs.a) > 0

\* C3 as amended: GET /api/jobs always answers with HTTP success; the jobs
\* array is the list the collaborator sent when it answered with success and
\* a list (an empty list included), and the three static jobs otherwise.
C3_JobsSuccessWithList ==
    handled.endpoint = JobsEndpoint
    => /\ Answered(200)
       /\ Body.success = Bool(TRUE)
       /\ IF Succeeded(handled.reply) /\ IsArray(Get(handled.reply.data, "jobs"))
          THEN Body.jobs = Get(handled.reply.data, "jobs")
          ELSE /\ IsArray(Body.jobs)
               /\ Len(Body.jobs.a) = 3
               /\ {Get(Body.jobs.a[i], "id") : i \in 1..3}
                    = {Str("job-1"), Str("job-2"), Str("job-3")}

\* The collaborator answered GET /jobs with success and an empty list, and
\* the response carries that empty list.
C3_Witness ==
    /\ handled.endpoint = JobsEndpoint
    /\ Succeeded(handled.reply)
    /\ Get(handled.reply.data, "jobs") = Arr(<< >>)
    /\ Answered(200)
    /\ Body.jobs = Arr(<< >>)

\* C4 as claimed: the source of the jobs response is "fallback_data" if and
\* only if the collaborator call did not answer with success.
C4_FallbackSourceIffFailed ==
    handled.endpoint = JobsEndpoint
    => (Body.source = Str("fallback_data") <=> ~Succeeded(handled.reply))

\* C4 as amended: a failed call always yields source "fallback_data"; a
\* successful answer with a jobs list yields the source the collaborator
\* reported, whatever it is; a successful answer without a jobs list yields
\* "fallback_data".
C4_SourceOfJobs ==
    handled.endpoint = JobsEndpoint
    => /\ ~Succeeded(handled.reply) => Body.source = Str("fallback_data")
       /\ (Succeeded(handled.reply) /\ IsArray(Get(handled.reply.data, "jobs")))
            => Body.source = Get(handled.reply.data, "source")
       /\ (Succeeded(handled.reply) /\ ~IsArray(Get(handled.reply.data, "jobs")))
            => Body.source = Str("fallback_data")

\* The collaborator call of GET /api/jobs failed and the response names the
\* fallback as its source.
C4_Witness ==
    /\ handled.endpoint = JobsEndpoint
    /\ CallFailed(handled.reply)
    /\ Answered(200)
    /\ Body.source = Str("fallback_data")

\* The answer is a success whose list (skills of parsedData, jobs, paths) is
\* one the handler can walk.
WellFormedSuccess(endpoint, reply) ==
    /\ Succeeded(reply)
    /\ CASE endpoint = UploadEndpoint ->
              IsArray(OrElse(OptGet(Get(reply.data, "parsedData"), "skills"), Arr(<< >>)))
         [] endpoint = JobsEndpoint -> IsArray(Get(reply.data, "jobs"))
         [] endpoint = PathsEndpoint -> IsArray(Get(reply.data, "paths"))

\* C5: whenever the collaborator call of an upload, a jobs listing or a
\* career-paths listing fails or returns a body that is no well-formed
\* success, the client receives a success response, never a 4xx/5xx one.
C5_CollaboratorFailureNotSurfaced ==
    (/\ handled.endpoint \in {UploadEndpoint, JobsEndpoint, PathsEndpoint}
     /\ handled.reply # NoCall
     /\ ~WellFormedSuccess(handled.endpoint, handled.reply))
    => Answered(200)

\* C6: for every upload where the collaborator call fails, the resume created
\* has score 65, the skills JavaScript, HTML, CSS, and the raw text of the
\* uploaded file as content, and the response reports the fallback with
\* extractedSkills = 3.
C6_FallbackResume ==
    (/\ handled.endpoint = UploadEndpoint
     /\ CallFailed(handled.reply))
    => /\ Answered(200)
       /\ Body.resume.score = Num(65)
       /\ Get(Body.resume.parsedData, "skills")
            = Arr(<< Str("JavaScript"), Str("HTML"), Str("CSS") >>)
       /\ Body.resume.content = handled.input.text
       /\ Body.message = Str("Resume uploaded (basic parsing - Python service unavailable)")
       /\ Body.extractedSkills = Num(3)
       /\ MapGet(storage.resumes, Body.resume.id) = Body.resume

\* An upload whose collaborator call failed has been answered.
C6_Witness ==
    /\ handled.endpoint = UploadEndpoint
    /\ CallFailed(handled.reply)
    /\ Answered(200)
    /\ Body.resume.userId = defaultUserId

\* C7: the dashboard reports jobRecommendations as the number of stored jobs
\* floored at 3, resumeScore as the resume's score or 0 without a resume,
\* and skillMatches as the number of the default user's skills.
C7_DashboardStats ==
    handled.endpoint = StatsEndpoint
    => LET n == Len(storage.jobs)
           resume == getResumeByUserId(storage, defaultUserId)
       IN  /\ Answered(200)
           /\ Body.jobRecommendations = Num(IF n < 3 THEN 3 ELSE n)
           /\ Body.resumeScore =
                 (IF resume = Undefined \/ resume.score = Null THEN Num(0)
                  ELSE resume.score)
           /\ Body.skillMatches =
                 Num(Cardinality({i \in 1..Len(storage.skills) :
                                    storage.skills[i].v.userId = defaultUserId}))

\* C8: the store holds at most one resume for any given user.
C8_OneResumePerUser ==
    \A i, j \in 1..Len(storage.resumes) :
        storage.resumes[i].v.userId = storage.resumes[j].v.userId => i = j

\* C9: a body of POST /api/activities that carries type, description and
\* status and no userId passes validation, and the response is the created
\* activity, stored for the default user with the type and status given.
C9_ActivityBodyWithoutUserId ==
    (/\ handled.endpoint = ActivitiesPost
     /\ Get(handled.input, "userId") = Undefined
     /\ \A f \in {"type", "description", "status"} : Get(handled.input, f).t = "string")
    => /\ Answered(200)
       /\ Body.activity.userId = defaultUserId
       /\ Body.activity.type = Get(handled.input, "type")
       /\ Body.activity.status = Get(handled.input, "status")
       /\ MapGet(storage.activities, Body.activity.id) = Body.activity

\* C10: after an activity has been created through POST /api/activities, the
\* list of the default user's activities has the new activity first.
C10_NewActivityFirst ==
    (/\ handled.endpoint = ActivitiesPost
     /\ Answered(200))
    => Head(getActivitiesByUserId(storage, defaultUserId)) = Body.activity

\* The titles of a list of courses, in order.
CourseTitles(courses) == [i \in 1..Len(courses) |-> courses[i].title]

\* C11: GET /api/courses on a store holding no courses seeds exactly the three
\* fixed fallback courses and returns them; a call on a store that holds
\* courses (so also the second call) returns the stored courses and adds no
\* course record.
C11_CoursesSeededOnce ==
    [][handled'.endpoint = CoursesEndpoint
       => LET before == MapValues(storage.courses)
              after == MapValues(storage'.courses)
              sent == handled'.sent
          IN  /\ Len(sent) = 1
              /\ sent[1].status = 200
              /\ sent[1].body.courses = after
              /\ IF Len(before) = 0
                 THEN /\ Len(after) = 3
                      /\ CourseTitles(after)
                           = << Str("Complete React Developer Course"),
                                Str("Python for Everybody Specialization"),
                                Str("CS50's Introduction to Computer Science") >>
                      /\ Cardinality({after[i].id : i \in 1..3}) = 3
                 ELSE after = before]_vars

\* The store held no courses, GET /api/courses has seeded the three fallback
\* courses and answered with them.
C11_Witness ==
    /\ handled.endpoint = CoursesEndpoint
    /\ Answered(200)
    /\ Len(Body.courses) = 3
    /\ Body.courses[1].title = Str("Complete React Developer Course")
    /\ Len(storage.courses) = 3

\* The step ends the handling of a request of this endpoint that was waiting
\* for the collaborator or the disk.
HandlerEnds(endpoint) ==
    /\ Cardinality(inflight') < Cardinality(inflight)
    /\ handled'.endpoint = endpoint

\* The skill names a successful analysis reports: the skills of parsedData,
\* none when parsedData or its skills are absent.
ReportedSkills(reply) ==
    LET parsedData == Get(reply.data, "parsedData")
    IN  IF parsedData.t = "object" /\ IsArray(Get(parsedData, "skills"))
        THEN Get(parsedData, "skills").a
        ELSE << >>

C13_UploadLogsOneActivity ==
    [][(/\ HandlerEnds(UploadEndpoint)
        /\ Len(handled'.sent) = 1
        /\ handled'.sent[1].status = 200)
       => LET old == storage.activities
              new == storage'.activities
          IN  /\ Len(new) = Len(old) + 1
              /\ SubSeq(new, 1, Len(old)) = old
              /\ new[Len(new)].v.type = Str("resume_upload")
              /\ new[Len(new)].v.status = Str("completed")
              /\ new[Len(new)].v.userId = defaultUserId
              /\ new[Len(new)].k \notin MapKeys(old)]_vars

\* Two uploads have been answered with success, one on the fallback path and
\* one on the success path, and the store holds one activity for each.
C13_Witness ==
    /\ handled.endpoint = UploadEndpoint
    /\ Answered(200)
    /\ Len(storage.resumes) = 2
    /\ \E i, j \in 1..2 :
          /\ storage.resumes[i].v.score = Num(fallbackScore)
          /\ storage.resumes[j].v.score = Num(87)
    /\ Len(storage.activities) = 2
    /\ \A i \in 1..2 : storage.activities[i].v.type = Str("resume_upload")

\* The extension of the name, in lower case, is .pdf, .txt, .docx or .doc.
AllowedExtension(originalname) ==
    Text(toLowerCase(extname(originalname))) \in { ".pdf", ".txt", ".docx", ".doc" }

\* C14: an upload whose file has an extension outside .pdf, .txt, .docx,
\* .doc (compared without regard to case) is rejected before the analysis
\* step: no handler ever waits for the collaborator with such a file, and
\* the step that rejects it makes no collaborator call, writes no temp file
\* and leaves the store as it was.
C14_DisallowedExtensionRejected ==
    [][/\ \A r \in inflight' :
            r.endpoint = UploadEndpoint => AllowedExtension(r.input.originalname)
       /\ (/\ handled' # handled
           /\ handled'.endpoint = UploadEndpoint
           /\ handled'.input # Undefined
           /\ ~AllowedExtension(handled'.input.originalname))
          => /\ handled'.reply = NoCall
             /\ Len(handled'.sent) = 1
             /\ handled'.sent[1].status >= 400
             /\ UNCHANGED << storage, uuids, uploads, inflight >>]_vars

\* The upload of cv.exe has been refused, and so has not been answered with a
\* resume.
C14_Witness ==
    /\ handled.endpoint = UploadEndpoint
    /\ handled.input # Undefined
    /\ Text(handled.input.originalname) = "cv.exe"
    /\ handled.reply = NoCall
    /\ ~Answered(200)

\* The matchScore of a job with a missing score counted as 0.
ScoreOf(job) == IF job.matchScore.t = "number" THEN job.matchScore.n ELSE 0

\* The list holds exactly the stored jobs at the positions wanted, each once,
\* with the higher score first.
SortedJobsFrom(list, wanted) ==
    LET stored == MapValues(storage.jobs)
    IN  /\ Len(list) = Cardinality(wanted)
        /\ {list[i] : i \in 1..Len(list)} = {stored[i] : i \in wanted}
        /\ \A i, j \in 1..Len(list) : i < j => ScoreOf(list[i]) >= ScoreOf(list[j])

Tables == { "users", "resumes", "skills", "jobs", "careerPaths", "courses", "activities" }

\* The map a create operation writes to.
TableOf(op) ==
    CASE op = "createUser" -> "users"
      [] op = "createResume" -> "resumes"
      [] op = "createSkill" -> "skills"
      [] op = "createJob" -> "jobs"
      [] op = "createCareerPath" -> "careerPaths"
      [] op = "createCourse" -> "courses"
      [] op = "createActivity" -> "activities"

\* The ids of all records of a store, by key and by id field.
RecordIds(st) ==
    UNION { {st[tbl][i].k : i \in 1..Len(st[tbl])} \cup {st[tbl][i].v.id : i \in 1..Len(st[tbl])}
            : tbl \in Tables }

\* C16: every create operation of the store assigns an id that no record
\* already in the store has, adds exactly one record, leaves every record
\* stored before unchanged and returns the record it stored; and no store
\* operation removes a record.
C16_CreateAddsOneFreshRecord ==
    [][/\ \A tbl \in Tables : MapKeys(storage[tbl]) \subseteq MapKeys(storage'[tbl])
       /\ started' # started
          => LET tbl == TableOf(handled'.op)
                 record == handled'.ret
             IN  /\ record.id \notin RecordIds(storage)
                 /\ storage'[tbl] = Append(storage[tbl], [k |-> record.id, v |-> record])
                 /\ \A other \in Tables \ {tbl} : storage'[other] = storage[other]]_vars

\* createUser has been called twice and has returned the second of two new
\* users, stored after the default user.
C16_Witness ==
    /\ handled.op = "createUser"
    /\ Len(storage.users) = 3
    /\ storage.users[1].k = defaultUserId
    /\ storage.users[3].v = handled.ret
    /\ storage.users[2].v.id # storage.users[3].v.id

\* C17: POST /api/activities with a body that lacks type, description or
\* status is answered with status 400 and the fixed error "Invalid activity
\* data", and creates no activity: the store stays as it was.
C17_InvalidActivityRejected ==
    [][(/\ handled'.endpoint = ActivitiesPost
        /\ \E f \in { "type", "description", "status" } :
              Get(handled'.input, f) = Undefined)
       => /\ handled'.sent = << Response(400, [error |-> Str("Invalid activity data")]) >>
          /\ UNCHANGED << storage, uuids >>]_vars

\* A body without type has been posted after an activity had been created,
\* and has been refused.
C17_Witness ==
    /\ handled.endpoint = ActivitiesPost
    /\ Get(handled.input, "type") = Undefined
    /\ Get(handled.input, "userId") # Undefined
    /\ Answered(400)
    /\ Len(storage.activities) = 1

\* C18: when the collaborator answers GET /jobs with success and a list of n
\* jobs, the handler adds exactly min(n, 10) job records to the store, one
\* for each of the first 10 jobs of the list and in that order, and the
\* response carries the whole list with the source the collaborator reported.
C18_StoresFirstTenJobs ==
    [][(/\ HandlerEnds(JobsEndpoint)
        /\ Succeeded(handled'.reply)
        /\ IsArray(Get(handled'.reply.data, "jobs")))
       => LET jobs == Get(handled'.reply.data, "jobs").a
              n == Len(jobs)
              stored == IF n < 10 THEN n ELSE 10
              old == storage.jobs
              new == storage'.jobs
          IN  /\ Len(new) = Len(old) + stored
              /\ SubSeq(new, 1, Len(old)) = old
              /\ \A i \in 1..stored :
                    /\ new[Len(old) + i].v.title = Get(jobs[i], "title")
                    /\ new[Len(old) + i].v.matchScore = Get(jobs[i], "matchScore")
              /\ Len(handled'.sent) = 1
              /\ handled'.sent[1].status = 200
              /\ handled'.sent[1].body.jobs = Arr(jobs)
              /\ Len(handled'.sent[1].body.jobs.a) = n
              /\ handled'.sent[1].body.source = Get(handled'.reply.data, "source")]_vars

\* The collaborator answered with 11 jobs: the response carries the 11, and
\* the store holds the first 10, job 10 last.
C18_Witness ==
    /\ handled.endpoint = JobsEndpoint
    /\ Answered(200)
    /\ Len(Body.jobs.a) = 11
    /\ Body.source = Str("remotive_api")
    /\ Len(storage.jobs) = 10
    /\ storage.jobs[10].v.title = Str("job 10")

\* The elements of a list.
Elements(a) == {a[i] : i \in 1..Len(a)}

\* C19: in the fallback branch of GET /api/career-paths each of the two
\* paths carries its fixed required skills; matchingSkills is the skill names
\* the handler read for the user that are required, missingSkills the
\* required skills that are not among those names; so every required skill
\* is in exactly one of the two lists and no other skill is in either.
C19_FallbackPathsPartition ==
    [][(/\ HandlerEnds(PathsEndpoint)
        /\ CallFailed(handled'.reply))
       => \E r \in inflight \ inflight' :
            LET names == r.skillNames
                sent == handled'.sent
                paths == sent[1].body.paths.a
                fixed == << << Str("HTML"), Str("CSS"), Str("JavaScript"), Str("React"),
                               Str("TypeScript") >>,
                            << Str("React"), Str("Node.js"), Str("Python"), Str("SQL"),
                               Str("Git"), Str("Docker") >> >>
            IN  /\ Len(sent) = 1
                /\ sent[1].status = 200
                /\ Len(paths) = 2
                /\ \A p \in 1..2 :
                      LET required == Get(paths[p], "requiredSkills").a
                          matching == Get(paths[p], "matchingSkills").a
                          missing == Get(paths[p], "missingSkills").a
                          isRequired(x) == x \in Elements(required)
                          notOwned(x) == x \notin Elements(names)
                      IN  /\ required = fixed[p]
                          /\ matching = SelectSeq(names, isRequired)
                          /\ missing = SelectSeq(required, notOwned)
                          /\ Elements(matching) \cap Elements(missing) = {}
                          /\ Elements(matching) \cup Elements(missing) = Elements(required)]_vars

\* The collaborator call of GET /api/career-paths failed for a user who has
\* the four sample skills and, from an upload, a second skill Python: the
\* full-stack path matches Python (twice), React and Node.js and misses SQL,
\* Git and Docker.
C19_Witness ==
    /\ handled.endpoint = PathsEndpoint
    /\ CallFailed(handled.reply)
    /\ Answered(200)
    /\ Get(Body.paths.a[2], "matchingSkills")
         = Arr(<< Str("Python"), Str("React"), Str("Node.js"), Str("Python") >>)
    /\ Get(Body.paths.a[2], "missingSkills")
         = Arr(<< Str("SQL"), Str("Git"), Str("Docker") >>)
    /\ Get(Body.paths.a[1], "matchingSkills") = Arr(<< Str("JavaScript"), Str("React") >>)

\* C20: updateResume(id, patch) with an id that is in the store replaces
\* that resume by the old record with the fields of the patch over it and
\* returns the merged record; with an id that is not in the store it returns
\* undefined and leaves the store unchanged; in both cases no other resume,
\* and no record of another kind, changes.
C20_UpdateResumeMerges ==
    [][handled'.op = "updateResume"
       => LET id == handled'.args.id
              patch == handled'.args.data
              old == storage.resumes
              new == storage'.resumes
              hits == {i \in 1..Len(old) : old[i].k = id}
          IN  /\ \A tbl \in Tables \ {"resumes"} : storage'[tbl] = storage[tbl]
              /\ Len(new) = Len(old)
              /\ \A i \in 1..Len(old) : i \notin hits => new[i] = old[i]
              /\ IF hits = {}
                 THEN handled'.ret = Undefined
                 ELSE \A i \in hits :
                        /\ new[i].k = id
                        /\ new[i].v = handled'.ret
                        /\ DOMAIN new[i].v = DOMAIN old[i].v \cup DOMAIN patch
                        /\ \A f \in DOMAIN new[i].v :
                              new[i].v[f] = IF f \in DOMAIN patch THEN patch[f]
                                            ELSE old[i].v[f]]_vars

\* Of two stored resumes the second has been given the score 50 by
\* updateResume; the first still has the score it was created with.
C20_Witness ==
    /\ handled.op = "updateResume"
    /\ Len(storage.resumes) = 2
    /\ handled.args.id = storage.resumes[2].k
    /\ handled.args.data = [score |-> Num(50)]
    /\ handled.ret = storage.resumes[2].v
    /\ storage.resumes[2].v.score = Num(50)
    /\ storage.resumes[1].v.score = Num(80)

\* The resumes of the store that belong to the default user.
DefaultUserResumes(st) ==
    {st.resumes[i].v : i \in {j \in 1..Len(st.resumes) : st.resumes[j].v.userId = defaultUserId}}

\* C21: GET /api/resume answers 404 "No resume found" exactly when the store
\* holds no resume of the default user, and otherwise returns a stored resume
\* whose userId is the default user; the request never changes the store.
C21_ResumeFetch ==
    [][handled'.endpoint = ResumeEndpoint
       => /\ UNCHANGED << storage, uuids >>
          /\ Len(handled'.sent) = 1
          /\ IF DefaultUserResumes(storage) = {}
             THEN handled'.sent[1] = Response(404, [error |-> Str("No resume found")])
             ELSE /\ handled'.sent[1].status = 200
                  /\ handled'.sent[1].body.resume \in DefaultUserResumes(storage)]_vars

\* GET /api/resume has returned a resume of the default user from a store
\* that holds one.
C21_Witness ==
    /\ handled.endpoint = ResumeEndpoint
    /\ Answered(200)
    /\ Body.resume.userId = defaultUserId
    /\ Body.resume = storage.resumes[1].v

\* The location a getJobs call filters by, if it filters at all.
FilterLocation(filters) ==
    IF /\ filters # Undefined
       /\ "location" \in DOMAIN filters.o
       /\ filters.o.location.s \notin { "", "All Locations" }
    THEN filters.o.location.s
    ELSE ""

\* The characters of the text from position i on start with part.
StartsAt(text, i, part) ==
    /\ i + Len(part) - 1 <= Len(text)
    /\ \A k \in 1..Len(part) : SubSeq(text, i + k - 1, i + k - 1) = SubSeq(part, k, k)

\* C22: getJobs(filters) returns exactly the stored jobs whose location
\* contains filters.location as a substring when a location is given and is
\* not 'All Locations', and all stored jobs otherwise; filters.experience
\* does not change the result.
C22_GetJobsFiltersByLocation ==
    handled.op = "getJobs"
      => LET part == FilterLocation(handled.args)
             kept == {i \in 1..Len(storage.jobs) :
                        part = "" \/ \E p \in 1..Len(storage.jobs[i].v.location.s) :
                                        StartsAt(storage.jobs[i].v.location.s, p, part)}
         IN  {handled.ret[i] : i \in 1..Len(handled.ret)}
               = {storage.jobs[i].v : i \in kept}
             /\ Len(handled.ret) = Cardinality(kept)

\* getJobs({location: 'Remote', experience: 'Senior'}) on a store with a job
\* in Berlin and a job in 'Berlin or Remote' returns the second job alone.
C22_Witness ==
    /\ handled.op = "getJobs"
    /\ handled.args = Obj([location |-> Str("Remote"), experience |-> Str("Senior")])
    /\ Len(storage.jobs) = 2
    /\ storage.jobs[1].v.location = Str("Berlin")
    /\ storage.jobs[2].v.location = Str("Berlin or Remote")
    /\ handled.ret = << storage.jobs[2].v >>

\* C23 as stated: the collaborator call is the only suspension point, so a
\* step of another request happens only while every waiting handler waits
\* for the collaborator.
C23_OnlyCollaboratorSuspends ==
    [][\A r \in inflight : r \in inflight' => r.pc = "call"]_vars

\* C23: a handler suspends at the collaborator call and, in the fallback
\* branch of an upload, once more at the read of its temp file. A step of
\* another request happens only while the handler waits at one of the two;
\* a handler that resumes either ends within that step or, being an upload
\* whose call did not succeed, goes on to wait for the read without having
\* changed anything.
C23_SuspendsAtCallAndFallbackRead ==
    [][\A r \in inflight :
         /\ r \in inflight'
              => \/ r.pc = "call"
                 \/ /\ r.pc = "read"
                    /\ r.endpoint = UploadEndpoint
                    /\ ~Succeeded(r.reply)
         /\ r \notin inflight'
              => \/ /\ r.pc = "call"
                    /\ r.endpoint = UploadEndpoint
                    /\ \E reply \in ParseReplies :
                          /\ ~Succeeded(reply)
                          /\ [r EXCEPT !.pc = "read", !.reply = reply] \in inflight'
                    /\ UNCHANGED << storage, uuids, uploads, handled >>
                 \/ /\ handled'.endpoint = r.endpoint
                    /\ handled'.input = r.input]_vars

\* The first request, an upload whose call failed, waits for the read of its
\* temp file, and a POST /api/activities that came after it has been handled.
C23_Witness ==
    /\ \E r \in inflight : r.rid = 1 /\ r.pc = "read" /\ CallFailed(r.reply)
    /\ started = 2
    /\ handled.endpoint = ActivitiesPost
    /\ Answered(200)

\* C24: no handler calls the collaborator a second time. When the call of a
\* waiting handler returns, the request does not wait for a call again: the
\* handler ends in that step or, being an upload, waits for the read of its
\* temp file; after a failed call the fallback is taken at once (the static
\* jobs, the paths computed from the skills, the read of the temp file).
C24_NoRetry ==
    [][\A r \in inflight :
         /\ \A q \in inflight' : q.rid = r.rid /\ q.pc = "call" => q = r
         /\ r.pc = "call" /\ r \notin inflight'
             => LET later == {q \in inflight' : q.rid = r.rid}
                IN  /\ \A q \in later : q.pc = "read" /\ q.endpoint = UploadEndpoint
                    /\ later = {} => handled'.endpoint = r.endpoint
                    /\ later = {} /\ CallFailed(handled'.reply)
                         => /\ r.endpoint \in { JobsEndpoint, PathsEndpoint }
                            /\ storage' = storage
                            /\ Len(handled'.sent) = 1
                            /\ r.endpoint = JobsEndpoint
                                 => /\ handled'.sent[1].body.jobs = Arr(fallbackJobs)
                                    /\ handled'.sent[1].body.source = Str("fallback_data")
                            /\ r.endpoint = PathsEndpoint
                                 => handled'.sent[1].body.paths
                                      = Arr(fallbackPaths(r.skillNames))
                    /\ r.endpoint = UploadEndpoint /\ later = {}
                         => ~CallFailed(handled'.reply)]_vars

\* GET /api/jobs has ended after a failed call, with the static jobs, and no
\* handler is waiting.
C24_Witness ==
    /\ handled.endpoint = JobsEndpoint
    /\ CallFailed(handled.reply)
    /\ Answered(200)
    /\ Body.jobs = Arr(fallbackJobs)
    /\ inflight = {}

FirstResume(st) ==
    LET own == {i \in 1..Len(st.resumes) : st.resumes[i].v.userId = defaultUserId}
    IN  st.resumes[CHOOSE i \in own : \A j \in own : i <= j].v

\* C26: the resumes stored stay as they are and in their order, later
\* uploads add theirs behind them; GET /api/resume returns the default
\* user's resume that was stored first and resumeScore of
\* GET /api/dashboard/stats is that resume's score (0 for a missing one).
C26_FirstResumeIsReturned ==
    [][/\ Len(storage'.resumes) >= Len(storage.resumes)
       /\ SubSeq(storage'.resumes, 1, Len(storage.resumes)) = storage.resumes
       /\ DefaultUserResumes(storage') # {}
            => /\ handled'.endpoint = ResumeEndpoint
                    => handled'.sent = << Response(200, [resume |-> FirstResume(storage')]) >>
               /\ handled'.endpoint = StatsEndpoint
                    => /\ Len(handled'.sent) = 1
                       /\ handled'.sent[1].body.resumeScore
                            = OrElse(FirstResume(storage').score, Num(0))]_vars

\* Two uploads stored resumes with scores 65 and 87, in this order, and
\* GET /api/dashboard/stats reports 65.
C26_Witness ==
    /\ handled.endpoint = StatsEndpoint
    /\ Len(storage.resumes) = 2
    /\ storage.resumes[1].v.score = Num(fallbackScore)
    /\ storage.resumes[2].v.score = Num(87)
    /\ Body.resumeScore = Num(fallbackScore)

\* C27: in every state of the store each record of each of the seven maps
\* is stored under the key that equals its id field, after any creates and
\* any updateResume calls.
C27_KeyIsRecordId ==
    \A table \in Tables :
        \A i \in 1..Len(storage[table]) : storage[table][i].k = storage[table][i].v.id

\* C28: the store holds the two sample courses of the constructor, and no
\* other course, in every state; GET /api/courses answers with them and so
\* never seeds the three fallback courses.
C28_SampleCoursesStay ==
    /\ CourseTitles(MapValues(storage.courses))
         = << Str("Complete Web Development Bootcamp"), Str("AWS Cloud Practitioner") >>
    /\ handled.endpoint = CoursesEndpoint
         => handled.sent = << Response(200, [courses |-> MapValues(storage.courses)]) >>

\* GET /api/courses has answered with the two sample courses after two
\* requests that wrote to the store, one of them an upload.
C28_Witness ==
    /\ handled.endpoint = CoursesEndpoint
    /\ Answered(200)
    /\ Len(Body.courses) = 2
    /\ started = 2
    /\ Len(storage.resumes) >= 1

\* C29: a handler that ends after a failed collaborator call stores no
\* fallback content as skill, job or career-path records: GET /api/jobs and
\* GET /api/career-paths leave the whole store as it was, and
\* POST /api/resume/upload changes the resumes and the activities only, so
\* the default user's skills are those of before.
C29_FallbackNotPersisted ==
    [][/\ Cardinality(inflight') < Cardinality(inflight)
       /\ CallFailed(handled'.reply)
       => /\ handled'.endpoint \in { JobsEndpoint, PathsEndpoint }
               => storage' = storage
          /\ handled'.endpoint = UploadEndpoint
               => /\ \A table \in Tables \ { "resumes", "activities" } :
                         storage'[table] = storage[table]
                  /\ getSkillsByUserId(storage', defaultUserId)
                       = getSkillsByUserId(storage, defaultUserId)]_vars

\* An upload whose call failed has been answered with the three fallback
\* skills counted, and the store holds the four sample skills and no job.
C29_Witness ==
    /\ handled.endpoint = UploadEndpoint
    /\ CallFailed(handled.reply)
    /\ Answered(200)
    /\ Body.extractedSkills = Num(3)
    /\ Len(storage.resumes) = 1
    /\ Len(storage.skills) = Len(SampleSkills)
    /\ Len(storage.jobs) = 0

\* C30: the activity POST /api/activities stores and returns has userId
\* "default-user" whatever userId the body carries; every stored activity
\* belongs to the default user, and GET /api/activities lists every stored
\* activity once.
C30_ActivitiesOfDefaultUser ==
    /\ \A i \in 1..Len(storage.activities) :
          storage.activities[i].v.userId = defaultUserId
    /\ handled.endpoint = ActivitiesPost /\ Answered(200)
         => /\ Body.activity.userId = defaultUserId
            /\ MapGet(storage.activities, Body.activity.id) = Body.activity
    /\ handled.endpoint = ActivitiesEndpoint
         => /\ Answered(200)
            /\ Len(Body.activities) = Len(storage.activities)
            /\ {Body.activities[i] : i \in 1..Len(Body.activities)}
                 = {storage.activities[i].v : i \in 1..Len(storage.activities)}

\* Two activities were posted with userId "someone-else" in the body, and
\* GET /api/activities lists both.
C30_Witness ==
    /\ handled.endpoint = ActivitiesEndpoint
    /\ Len(storage.activities) = 2
    /\ \A i \in 1..2 : storage.activities[i].v.type = Str("note")
    /\ Len(Body.activities) = 2

====
